---- MODULE Spec2Model ----
(***************************************************************************)
(* A model of the maze generator of textMaze.py: MazeGenerator.generate    *)
(* with its base carve (randomised Prim walk on the distance-2 lattice),   *)
(* the BFS validator, the trial-and-rollback wall injection and the        *)
(* fallback.  A cell is <<row, col>>; a grid is a function from the cells  *)
(* of a height x width rectangle to the four markers.                      *)
(***************************************************************************)
EXTENDS Integers, Sequences, FiniteSets

\* ------------------------------------------------------------------ bounds
\* Largest grid area (width * height) drawn under Spec, where every random
\* choice is explored.
MaxArea == 35
\* Difficulty is diffNum / DiffDen, diffNum in 0..DiffDen.
DiffDen == 4
\* Largest width and height of the grids handed to the validator alone.
MaxValidateDim == 4
\* Most Open cells (besides the two markers) of those grids.
MaxOpen == 4
\* Seeds of the seeded random source used for the 9x9 and 10x10 grids.
MaxSeed == 2

\* ------------------------------------------------------ program constants
max_attempts == 10

Wall == "W"
Open == "O"
PlayerStart == "P"
ExitDoor == "E"

VARIABLES
  width, height, diffNum,  \* the constructor's arguments
  maze,                    \* self.maze
  path,                    \* self._path (only membership is ever read)
  frontier,                \* the local list of _generate_base_maze
  attempt,                 \* the iteration of generate()'s for loop, 1..10
  pc,                      \* position inside generate()
  valid,                   \* the value the last _validate_maze() returned
  cands,                   \* candidate_positions not yet tried
  wallCount, addedWalls,   \* wall_count, added_walls of _add_safe_walls
  cur, original,           \* the cell under trial and its saved marker
  usedFallback,            \* generate() returned through the fallback
  rng,                     \* state of the seeded random source
  baseMaze,                \* history: the grid when injection started
  candCount,               \* history: len(candidate_positions)
  trialPre, trialPreAdded, \* history: grid and added_walls before the trial
  expanded,                \* history: cells the last BFS expanded
  calls                    \* history: validator calls in a row (SpecValidate)

vars == <<width, height, diffNum, maze, path, frontier, attempt, pc, valid,
          cands, wallCount, addedWalls, cur, original, usedFallback, rng,
          baseMaze, candCount, trialPre, trialPreAdded, expanded, calls>>

\* ----------------------------------------------------------------- helpers
Cells(h, w) == (0 .. h - 1) \X (0 .. w - 1)

AllWall(h, w) == [c \in Cells(h, w) |-> Wall]

Start == <<1, 1>>

Exit(h, w) == <<h - 2, w - 2>>

\* 0 < nx < height-1 and 0 < ny < width-1
Interior(c, h, w) == 0 < c[1] /\ c[1] < h - 1 /\ 0 < c[2] /\ c[2] < w - 1

\* 0 <= nx < height and 0 <= ny < width
InGrid(c, h, w) == 0 <= c[1] /\ c[1] < h /\ 0 <= c[2] /\ c[2] < w

Add(c, d) == <<c[1] + d[1], c[2] + d[2]>>

Dirs4 == << <<-1, 0>>, <<1, 0>>, <<0, -1>>, <<0, 1>> >>

Dirs2 == << <<-2, 0>>, <<2, 0>>, <<0, -2>>, <<0, 2>> >>

RemoveAt(s, i) == SubSeq(s, 1, i - 1) \o SubSeq(s, i + 1, Len(s))

\* ------------------------------------------------------------- the validator
\* Mutant: the eight neighbours, diagonals included.
BfsNeighbours8(m, h, w, c, visited) ==
  SelectSeq([k \in 1 .. 8 |->
               Add(c, << <<-1, 0>>, <<1, 0>>, <<0, -1>>, <<0, 1>>,
                         <<-1, -1>>, <<-1, 1>>, <<1, -1>>, <<1, 1>> >>[k])],
            LAMBDA n : InGrid(n, h, w) /\ m[n] # Wall /\ n \notin visited)

\* The neighbours _validate_maze appends for cell c, in the order of the code.
BfsNeighbours(m, h, w, c, visited) ==
  SelectSeq([k \in 1 .. 4 |-> Add(c, Dirs4[k])],
            LAMBDA n : InGrid(n, h, w) /\ m[n] # Wall /\ n \notin visited)

RECURSIVE Bfs(_, _, _, _, _, _)
Bfs(m, h, w, queue, visited, nexp) ==
  IF queue = << >> THEN [result |-> FALSE, expanded |-> nexp, maze |-> m]
  ELSE LET c == Head(queue)
           rest == Tail(queue)
       IN IF c = Exit(h, w) THEN [result |-> TRUE, expanded |-> nexp, maze |-> m]
          ELSE IF c \in visited THEN Bfs(m, h, w, rest, visited, nexp)
          ELSE LET v2 == visited \cup {c}
               IN Bfs(m, h, w, rest \o BfsNeighbours(m, h, w, c, v2), v2, nexp + 1)

\* Mutant: a flood fill that marks the start cell in the grid itself.
ValidateMazeMarking(m, h, w) ==
  [Bfs(m, h, w, <<Start>>, {}, 0) EXCEPT !.maze = [m EXCEPT ![Start] = Wall]]

\* _validate_maze(): its return value, the number of cells it expanded, and
\* the grid as it leaves it.
ValidateMaze(m, h, w) == Bfs(m, h, w, <<Start>>, {}, 0)

\* ---------------------------------------------------------------- base carve
\* The frontier entries seeded around the start cell.
SeedFrontier(h, w) ==
  SelectSeq([k \in 1 .. 4 |-> [cell |-> <<Start[1] + 2 * Dirs4[k][1],
                                           Start[2] + 2 * Dirs4[k][2]>>,
                                parent |-> Start]],
            LAMBDA e : Interior(e.cell, h, w))

Mid(c, p) == <<(c[1] + p[1]) \div 2, (c[2] + p[2]) \div 2>>

\* The grid after the popped entry e has been carved.
CarveCell(m, e) == [m EXCEPT ![Mid(e.cell, e.parent)] = Open, ![e.cell] = Open]

\* The frontier entries cell c proposes, given the grid m after carving c.
NewFrontier(m, h, w, c) ==
  SelectSeq([k \in 1 .. 4 |-> [cell |-> Add(c, Dirs2[k]), parent |-> c]],
            LAMBDA e : Interior(e.cell, h, w) /\ m[e.cell] = Wall)

\* self.maze reset and the start cell marked; IndexError when the grid has no
\* cell (1,1).
BaseInit ==
  /\ pc = "start"
  /\ IF height < 2 \/ width < 2
     THEN /\ pc' = "raised"
          /\ maze' = AllWall(height, width)
          /\ UNCHANGED frontier
     ELSE /\ pc' = "carve"
          /\ maze' = [AllWall(height, width) EXCEPT ![Start] = PlayerStart]
          /\ frontier' = SeedFrontier(height, width)
  /\ UNCHANGED <<width, height, diffNum, path, attempt, valid, cands, wallCount,
                 addedWalls, cur, original, usedFallback, rng, baseMaze,
                 candCount, trialPre, trialPreAdded, expanded, calls>>

\* One iteration of the while loop: frontier.pop(i) and its processing; r is
\* the random source after the draw.
CarveStep(i, r) ==
  /\ pc = "carve"
  /\ i \in 1 .. Len(frontier)
  /\ LET e == frontier[i]
         rest == RemoveAt(frontier, i)
     IN IF maze[e.cell] = Wall
        THEN LET m2 == CarveCell(maze, e)
             IN /\ maze' = m2
                /\ path' = path \cup {e.cell}
                /\ frontier' = rest \o NewFrontier(m2, height, width, e.cell)
        ELSE /\ frontier' = rest
             /\ UNCHANGED <<maze, path>>
  /\ rng' = r
  /\ UNCHANGED <<width, height, diffNum, attempt, pc, valid, cands, wallCount,
                 addedWalls, cur, original, usedFallback, baseMaze, candCount,
                 trialPre, trialPreAdded, expanded, calls>>

\* The loop has ended: the exit cell is marked.
FinishCarve ==
  /\ pc = "carve"
  /\ frontier = << >>
  /\ maze' = [maze EXCEPT ![Exit(height, width)] = ExitDoor]
  /\ pc' = "validate_base"
  /\ UNCHANGED <<width, height, diffNum, path, frontier, attempt, valid, cands,
                 wallCount, addedWalls, cur, original, usedFallback, rng, baseMaze,
                 candCount, trialPre, trialPreAdded, expanded, calls>>

\* ---------------------------------------------------------------- validation
AfterValidate(p) ==
  CASE p = "validate_base" -> "after_base"
    [] p = "validate_trial" -> "trial_resolve"
    [] p = "validate_final" -> "after_final"

ValidatePcs == {"validate_base", "validate_trial", "validate_final"}

\* A call of self._validate_maze() from generate() or _add_safe_walls().
Validate ==
  /\ pc \in ValidatePcs
  /\ LET r == ValidateMaze(maze, height, width)
     IN /\ valid' = r.result
        /\ expanded' = r.expanded
        /\ maze' = r.maze
  /\ pc' = AfterValidate(pc)
  /\ UNCHANGED <<width, height, diffNum, path, frontier, attempt, cands,
                 wallCount, addedWalls, cur, original, usedFallback, rng, baseMaze,
                 candCount, trialPre, trialPreAdded, calls>>

\* --------------------------------------------------------------- generate()
\* Mutant: the retry loop has no bound.
NextAttemptPcUnbounded == "start"

\* The next iteration of the for loop, or the fallback after the last one.
NextAttemptPc == IF attempt < max_attempts THEN "start" ELSE "fallback"

\* The cells of S in the order the double loop visits them (row-major).
RowMajor(S, w) ==
  LET rank(c) == Cardinality({b \in S : b[1] * w + b[2] < c[1] * w + c[2]})
  IN [i \in 1 .. Cardinality(S) |-> CHOOSE c \in S : rank(c) = i - 1]

Candidates(m, h, w, p) ==
  RowMajor({c \in Cells(h, w) : Interior(c, h, w) /\ m[c] = Open /\ c \notin p}, w)

\* int(len(candidate_positions) * self.difficulty)
WallCountOf(n, d) == (n * d) \div DiffDen

\* The test after the first validation; on success _add_safe_walls starts
\* with the candidates in the order `shuffled`; r is the random source after
\* the shuffle.
AfterBase(shuffled, r) ==
  /\ pc = "after_base"
  /\ IF valid
     THEN /\ cands' = shuffled
          /\ rng' = r
          /\ candCount' = Len(shuffled)
          /\ wallCount' = WallCountOf(Len(shuffled), diffNum)
          /\ addedWalls' = 0
          /\ baseMaze' = maze
          /\ pc' = "inject"
          /\ UNCHANGED attempt
     ELSE /\ pc' = NextAttemptPc
          /\ attempt' = IF attempt < max_attempts THEN attempt + 1 ELSE attempt
          /\ UNCHANGED <<cands, candCount, wallCount, addedWalls, baseMaze, rng>>
  /\ UNCHANGED <<width, height, diffNum, maze, path, frontier, valid, cur,
                 original, usedFallback, trialPre, trialPreAdded, expanded, calls>>

\* Mutant: the break comes one placed wall late.
BreakLoopLate == addedWalls > wallCount

\* if added_walls >= wall_count: break
BreakLoop == addedWalls >= wallCount

\* One iteration of the injection loop up to the validation: candidate i of
\* the remaining ones is tentatively walled.
TrialBegin(i) ==
  /\ pc = "inject"
  /\ i \in 1 .. Len(cands)
  /\ ~BreakLoop
  /\ cur' = cands[i]
  /\ cands' = RemoveAt(cands, i)
  /\ original' = maze[cands[i]]
  /\ maze' = [maze EXCEPT ![cands[i]] = Wall]
  /\ trialPre' = maze
  /\ trialPreAdded' = addedWalls
  /\ pc' = "validate_trial"
  /\ UNCHANGED <<width, height, diffNum, path, frontier, attempt, valid,
                 wallCount, addedWalls, usedFallback, rng, baseMaze, candCount,
                 expanded, calls>>

\* Mutant: a failed trial is not rolled back.
TrialEndNoRollback ==
  /\ pc = "trial_resolve"
  /\ addedWalls' = IF valid THEN addedWalls + 1 ELSE addedWalls
  /\ pc' = "inject"
  /\ UNCHANGED <<width, height, diffNum, maze, path, frontier, attempt, valid,
                 cands, wallCount, cur, original, usedFallback, rng, baseMaze,
                 candCount, trialPre, trialPreAdded, expanded, calls>>

\* The rest of the iteration: keep the wall and count it, or roll it back.
TrialEnd ==
  /\ pc = "trial_resolve"
  /\ IF valid
     THEN /\ addedWalls' = addedWalls + 1
          /\ UNCHANGED maze
     ELSE /\ maze' = [maze EXCEPT ![cur] = original]
          /\ UNCHANGED addedWalls
  /\ pc' = "inject"
  /\ UNCHANGED <<width, height, diffNum, path, frontier, attempt, valid, cands,
                 wallCount, cur, original, usedFallback, rng, baseMaze, candCount,
                 trialPre, trialPreAdded, expanded, calls>>

\* The injection loop ends: candidates exhausted, or the break.
EndInject ==
  /\ pc = "inject"
  /\ cands = << >> \/ BreakLoop
  /\ pc' = "validate_final"
  /\ UNCHANGED <<width, height, diffNum, maze, path, frontier, attempt, valid,
                 cands, wallCount, addedWalls, cur, original, usedFallback, rng,
                 baseMaze, candCount, trialPre, trialPreAdded, expanded, calls>>

\* The test after the second validation: return self.maze, or go on.
AfterFinal ==
  /\ pc = "after_final"
  /\ IF valid
     THEN /\ pc' = "done"
          /\ UNCHANGED attempt
     ELSE /\ pc' = NextAttemptPc
          /\ attempt' = IF attempt < max_attempts THEN attempt + 1 ELSE attempt
  /\ UNCHANGED <<width, height, diffNum, maze, path, frontier, valid, cands,
                 wallCount, addedWalls, cur, original, usedFallback, rng, baseMaze,
                 candCount, trialPre, trialPreAdded, expanded, calls>>

\* Mutant: the start marker is not put back after the comb is opened.
FallbackGridNoStart(m, h, w) ==
  [[c \in Cells(h, w) |->
      IF Interior(c, h, w) /\ c[1] % 2 = 1 /\ c[2] % 2 = 1 THEN Open ELSE m[c]]
   EXCEPT ![Exit(h, w)] = ExitDoor]

\* The grid _generate_fallback_maze leaves, starting from grid m.
FallbackGrid(m, h, w) ==
  LET comb == [c \in Cells(h, w) |->
                 IF Interior(c, h, w) /\ c[1] % 2 = 1 /\ c[2] % 2 = 1
                 THEN Open ELSE m[c]]
  IN [[comb EXCEPT ![Start] = PlayerStart] EXCEPT ![Exit(h, w)] = ExitDoor]

Fallback ==
  /\ pc = "fallback"
  /\ maze' = FallbackGrid(maze, height, width)
  /\ usedFallback' = TRUE
  /\ pc' = "done"
  /\ UNCHANGED <<width, height, diffNum, path, frontier, attempt, valid, cands,
                 wallCount, addedWalls, cur, original, rng, baseMaze, candCount,
                 trialPre, trialPreAdded, expanded, calls>>

\* ------------------------------------------------------------ specifications
\* The generator object with grid m, before generate() is called.
InitState(h, w, d, m) ==
  /\ height = h /\ width = w /\ diffNum = d
  /\ maze = m
  /\ path = {}
  /\ frontier = << >>
  /\ attempt = 1
  /\ pc = "start"
  /\ valid = FALSE
  /\ cands = << >>
  /\ wallCount = 0 /\ addedWalls = 0
  /\ cur = Start /\ original = Open
  /\ usedFallback = FALSE
  /\ baseMaze = AllWall(h, w)
  /\ candCount = 0
  /\ trialPre = AllWall(h, w) /\ trialPreAdded = 0
  /\ expanded = 0
  /\ calls = 0

\* MazeGenerator(width, height, difficulty): the grid is all Wall.
InitGenerator(h, w, d) == InitState(h, w, d, AllWall(h, w))

Init ==
  /\ \E h \in 1 .. MaxArea, w \in 1 .. MaxArea, d \in 0 .. DiffDen :
        h * w <= MaxArea /\ InitGenerator(h, w, d)
  /\ rng = 0

\* Every outcome of random.randint and random.shuffle: any frontier index,
\* and any remaining candidate next.
RandomCarveStep == \E i \in 1 .. Len(frontier) : CarveStep(i, rng)

RandomAfterBase == AfterBase(Candidates(maze, height, width, path), rng)

RandomTrialBegin == \E i \in 1 .. Len(cands) : TrialBegin(i)

Next ==
  \/ BaseInit
  \/ RandomCarveStep
  \/ FinishCarve
  \/ Validate
  \/ RandomAfterBase
  \/ RandomTrialBegin
  \/ TrialEnd
  \/ EndInject
  \/ AfterFinal
  \/ Fallback

Spec == Init /\ [][Next]_vars

\* ---- the same generator over a seeded random source, on 9x9 .. 10x10 grids
\* The random module, as a linear congruential generator: the state after one
\* more draw.
NextRand(r) == (r * 75 + 74) % 65537

\* random.randint(0, n-1) drawn from state r (after it has advanced).
RandBelow(r, n) == r % n

Swap(s, i, j) == [s EXCEPT ![i] = s[j], ![j] = s[i]]

\* random.shuffle: for i in reversed(range(1, len(x))): j = randbelow(i+1);
\* x[i], x[j] = x[j], x[i].  k is i + 1 (sequences are 1-based here).
RECURSIVE Shuffle(_, _, _)
Shuffle(s, r, k) ==
  IF k <= 1 THEN [seq |-> s, rng |-> r]
  ELSE LET r2 == NextRand(r)
       IN Shuffle(Swap(s, k, RandBelow(r2, k) + 1), r2, k - 1)

SeededCarveStep ==
  /\ frontier # << >>
  /\ CarveStep(RandBelow(NextRand(rng), Len(frontier)) + 1, NextRand(rng))

SeededAfterBase ==
  LET c == Candidates(maze, height, width, path)
      sh == Shuffle(c, rng, Len(c))
  IN AfterBase(sh.seq, sh.rng)

\* The candidates are already in shuffled order: the loop takes the next one.
SeededTrialBegin == TrialBegin(1)

BigDims == {9, 10}

InitSeeded ==
  /\ \E h \in BigDims, w \in BigDims, d \in 0 .. DiffDen : InitGenerator(h, w, d)
  /\ rng \in 0 .. MaxSeed

NextSeeded ==
  \/ BaseInit
  \/ SeededCarveStep
  \/ FinishCarve
  \/ Validate
  \/ SeededAfterBase
  \/ SeededTrialBegin
  \/ TrialEnd
  \/ EndInject
  \/ AfterFinal
  \/ Fallback

SpecSeeded == InitSeeded /\ [][NextSeeded]_vars

\* ------------------------------------- the validator alone, on arbitrary grids
\* The subsets of S with at most k elements.
RECURSIVE SubsetsUpTo(_, _)
SubsetsUpTo(S, k) ==
  IF k = 0 THEN {{}}
  ELSE LET prev == SubsetsUpTo(S, k - 1)
       IN prev \cup {T \cup {c} : T \in prev, c \in S}

\* A grid with the cells of S Open and the two markers where the generator
\* always puts them (start first, exit last).
GridOf(S, h, w) ==
  LET g == [c \in Cells(h, w) |-> IF c \in S THEN Open ELSE Wall]
  IN [[g EXCEPT ![Start] = PlayerStart] EXCEPT ![Exit(h, w)] = ExitDoor]

InitValidate ==
  /\ \E h \in 3 .. MaxValidateDim, w \in 3 .. MaxValidateDim :
        \E S \in SubsetsUpTo(Cells(h, w) \ {Start, Exit(h, w)}, MaxOpen) :
           InitState(h, w, 0, GridOf(S, h, w))
  /\ rng = 0

\* self._validate_maze() called on the grid as it stands, up to twice in a row.
ValidateAlone ==
  /\ pc = "start"
  /\ calls < 2
  /\ LET r == ValidateMaze(maze, height, width)
     IN /\ valid' = r.result
        /\ expanded' = r.expanded
        /\ maze' = r.maze
  /\ calls' = calls + 1
  /\ UNCHANGED <<width, height, diffNum, path, frontier, attempt, pc, cands,
                 wallCount, addedWalls, cur, original, usedFallback, rng,
                 baseMaze, candCount, trialPre, trialPreAdded>>

NextValidate == ValidateAlone

SpecValidate == InitValidate /\ [][NextValidate]_vars

\* -------------------------------------------------------------- the claims
Abs(x) == IF x < 0 THEN -x ELSE x

Adjacent(a, b) == Abs(a[1] - b[1]) + Abs(a[2] - b[2]) = 1

\* The non-Wall cells joined to S by 4-directional steps through non-Wall cells.
RECURSIVE Closure(_, _, _, _)
Closure(m, h, w, S) ==
  LET S2 == S \cup {n \in Cells(h, w) : m[n] # Wall /\ \E c \in S : Adjacent(c, n)}
  IN IF S2 = S THEN S ELSE Closure(m, h, w, S2)

\* There is a path of non-Wall cells from Start to Exit.
PathExists(m, h, w) ==
  /\ Start \in Cells(h, w)
  /\ Exit(h, w) \in Cells(h, w)
  /\ m[Start] # Wall
  /\ Exit(h, w) \in Closure(m, h, w, {Start})

CellsMarked(m, h, w, k) == {c \in Cells(h, w) : m[c] = k}

\* A base carve has completed in this attempt (or generate() has returned).
CarveCompleted == pc \notin {"start", "carve", "raised"}

\* _add_safe_walls is between two iterations, or has ended.
BetweenTrials == pc \in {"inject", "validate_final", "after_final"} \/
                 (pc = "done" /\ ~usedFallback)

\* C1: for width >= 9 and height >= 9, the grid generate() returns has a path
\* of non-Wall cells from Start to Exit, whichever way it returns.
C1_ReturnedGridSolvable ==
  (pc = "done" /\ width >= 9 /\ height >= 9) => PathExists(maze, height, width)

\* C2 as stated: for width, height >= 3, after every completed base carve,
\* after every step of injection and in the returned grid there is exactly one
\* PlayerStart cell, at (1,1), and exactly one ExitDoor cell, at
\* (height-2, width-2).
C2_OneStartOneExit ==
  (CarveCompleted /\ width >= 3 /\ height >= 3) =>
     /\ CellsMarked(maze, height, width, PlayerStart) = {Start}
     /\ CellsMarked(maze, height, width, ExitDoor) = {Exit(height, width)}

\* C2 amended: the same, except for the 3x3 grid, where Start and Exit are one
\* cell: it holds ExitDoor and no cell holds PlayerStart.
C2_OneStartOneExitUnless3x3 ==
  (CarveCompleted /\ width >= 3 /\ height >= 3) =>
     /\ CellsMarked(maze, height, width, ExitDoor) = {Exit(height, width)}
     /\ CellsMarked(maze, height, width, PlayerStart) =
          IF width = 3 /\ height = 3 THEN {} ELSE {Start}

C2_Witness ==
  /\ pc = "done" /\ ~usedFallback /\ addedWalls >= 1
  /\ maze[Start] = PlayerStart /\ maze[Exit(height, width)] = ExitDoor

\* C3: for width, height >= 3, the grid the fallback returns has Exit
\* reachable from Start.
C3_FallbackConnected ==
  (pc = "done" /\ usedFallback /\ width >= 3 /\ height >= 3) =>
     PathExists(maze, height, width)

\* C4: _validate_maze() returns True exactly when a 4-directional path of
\* non-Wall cells joins Start to Exit; when Start = Exit it returns True
\* without expanding any cell.
C4_ValidateIsReachability ==
  calls >= 1 =>
     /\ valid = PathExists(maze, height, width)
     /\ Start = Exit(height, width) => (valid /\ expanded = 0)

C4_Witness ==
  /\ calls >= 1 /\ valid /\ expanded >= 3
  /\ Cardinality(CellsMarked(maze, height, width, Open)) >= 4

\* A ranking of the positions of generate(): within one attempt the phases in
\* order, the carve ranked by the Wall cells left and the frontier length, the
\* injection by the candidates left; attempts ranked by how many remain.
Area == width * height

PhaseRank ==
  CASE pc \in {"done", "raised"} -> 0
    [] pc = "fallback" -> 1
    [] pc = "after_final" -> 2
    [] pc = "validate_final" -> 3
    [] pc = "inject" -> 6 + 3 * Len(cands)
    [] pc = "validate_trial" -> 8 + 3 * Len(cands)
    [] pc = "trial_resolve" -> 7 + 3 * Len(cands)
    [] pc = "after_base" -> 7 + 3 * Area
    [] pc = "validate_base" -> 8 + 3 * Area
    [] pc = "carve" -> 9 + 3 * Area
                         + 5 * Cardinality(CellsMarked(maze, height, width, Wall))
                         + Len(frontier)
    [] pc = "start" -> 14 + 8 * Area

Variant == (max_attempts - attempt) * (15 + 8 * Area) + PhaseRank

\* C5: for width, height >= 3, generate() terminates and returns a grid
\* without raising: every step of it lowers a natural-number ranking (so the
\* frontier loop, the injection loop and the retry loop all end), it is never
\* stuck before it returns (a step is enabled, or it is at a call of the
\* validator, whose BFS expands each cell at most once), it makes at most 10
\* attempts, and the fallback is entered after the 10th failed attempt and
\* only then.
C5_GenerateTerminates ==
  /\ [][(width >= 3 /\ height >= 3) => Variant' < Variant]_vars
  /\ []((width >= 3 /\ height >= 3) =>
          /\ Variant \in Nat
          /\ pc # "raised"
          /\ expanded <= Area
          /\ \/ pc = "done"
             \/ pc \in ValidatePcs
             \/ ENABLED (BaseInit \/ RandomCarveStep \/ FinishCarve \/ RandomAfterBase
                           \/ RandomTrialBegin \/ TrialEnd \/ EndInject \/ AfterFinal
                           \/ Fallback)
          /\ attempt \in 1 .. max_attempts
          /\ (pc = "fallback" \/ usedFallback) => (attempt = max_attempts /\ ~valid))
  /\ [][(width >= 3 /\ height >= 3 /\ attempt = max_attempts /\ ~valid
           /\ pc \in {"after_base", "after_final"}) => pc' = "fallback"]_vars

C5_Witness ==
  /\ pc = "done" /\ usedFallback /\ attempt = max_attempts
  /\ width >= 3 /\ height >= 3

\* The cells injection has turned from Open to Wall, and its candidate count.
Placed == {c \in Cells(height, width) : baseMaze[c] = Open /\ maze[c] = Wall}

CandidateCount ==
  Cardinality({c \in Cells(height, width) :
                 Interior(c, height, width) /\ baseMaze[c] = Open /\ c \notin path})

\* C6: the cells injection converts from Open to Wall and keeps number at most
\* floor(candidateCount * difficulty) and at most candidateCount; nothing else
\* changes, and at difficulty 0 the grid equals the base carve.
C6_PlacedWithinBudget ==
  BetweenTrials =>
     /\ Cardinality(Placed) * DiffDen <= CandidateCount * diffNum
     /\ Cardinality(Placed) <= CandidateCount
     /\ Cardinality(Placed) = addedWalls
     /\ \A c \in Cells(height, width) : maze[c] # baseMaze[c] => c \in Placed
     /\ diffNum = 0 => maze = baseMaze

C6_Witness ==
  /\ pc = "done" /\ ~usedFallback
  /\ Cardinality(Placed) = 2 /\ wallCount = 2 /\ cands # << >>

C8_DegenerateNeverReturns == (width < 3 \/ height < 3) => pc # "done"

\* C9: after each injection trial, with P the grid before it and c the
\* candidate: if walling c leaves Exit reachable, the grid is P with c turned
\* from Open to Wall and the count is one higher; otherwise grid and count are
\* those before the trial.  Exit is reachable from Start after every trial.
C9_TrialIsTransactional ==
  (BetweenTrials /\ Len(cands) < candCount) =>
     LET walled == [trialPre EXCEPT ![cur] = Wall]
     IN /\ trialPre[cur] = Open
        /\ IF PathExists(walled, height, width)
           THEN maze = walled /\ addedWalls = trialPreAdded + 1
           ELSE maze = trialPre /\ addedWalls = trialPreAdded
        /\ PathExists(maze, height, width)

C9_Witness ==
  /\ pc = "inject" /\ Len(cands) < candCount
  /\ ~valid /\ maze = trialPre /\ addedWalls >= 1

\* C10: for width, height >= 3 the base carve leaves Exit reachable,
\* the validation after it never fails, and generate() returns on its first
\* attempt without retry or fallback.
C10_BaseCarveConnected ==
  (width >= 3 /\ height >= 3) =>
     /\ pc = "after_base" => (valid /\ PathExists(maze, height, width))
     /\ attempt = 1 /\ pc # "fallback" /\ ~usedFallback

====
